---------------------------- MODULE Spec2Model ----------------------------
(***************************************************************************)
(* Single-cell model of the wflow_w3 (W3RA / AWRA-L) daily timestep,       *)
(* src/wflow/wflow_w3.py, WflowModel.initial / resume / dynamic.           *)
(*                                                                         *)
(* Arithmetic.  The program computes on reals (PCRaster scalars).  Here a  *)
(* real is a fixed-point integer:                                          *)
(*   - a dimensionless number, a temperature or a height x is x * ONE;     *)
(*   - a water depth of x mm is x * MM "sub-units".  A "quantum" is QU     *)
(*     sub-units (1/16 mm).  Rounding is always towards zero.              *)
(* The drainage/interflow partition coefficient Rh is kept on the grid of  *)
(* 1/RhGrid, and QU = RhGrid * RhGrid, so that the products Rh * x the     *)
(* soil scheme forms with water depths on the quantum grid (top layer)     *)
(* and on the grid of RhGrid sub-units (shallow layer) are exact: the only *)
(* rounding the soil water balance sees is that of the quadratic's root    *)
(* and of the general-case outflow, which is the rounding the closure      *)
(* correction of the program is there to absorb.                           *)
(*                                                                         *)
(* Missing values.  PCRaster yields a missing value (MV) for a division by *)
(* zero, a square root or logarithm outside its domain, and every          *)
(* operation on an MV is an MV.  A timestep that produces an MV turns the  *)
(* cell into a missing cell (missing = TRUE), which it stays.              *)
(***************************************************************************)
EXTENDS Integers, Sequences, FiniteSets, TLC

RhGrid == 4 * 4            \* Rh is a multiple of 1/RhGrid
ONE == RhGrid * RhGrid     \* fixed-point one of dimensionless numbers
QU == RhGrid * RhGrid      \* sub-units per quantum
MM == 16 * QU              \* sub-units per mm

Max(a, b) == IF a >= b THEN a ELSE b
Min(a, b) == IF a <= b THEN a ELSE b
Abs(a) == IF a >= 0 THEN a ELSE -a

\* integer division rounding towards zero (b > 0)
TDiv(a, b) == IF a >= 0 THEN a \div b ELSE -((-a) \div b)
\* fixed-point product and quotient of a value with a dimensionless number
Mul(a, b) == TDiv(a * b, ONE)
Div(a, b) == IF b > 0 THEN TDiv(a * ONE, b) ELSE -TDiv(a * ONE, -b)
\* rounding of a water depth to a grid of g sub-units
Qn(x, g) == TDiv(x, g) * g
\* water depth (sub-units) times dimensionless number, on the quantum grid
MulQ(f, x) == Qn(TDiv(f * x, ONE), QU)

\* integer square root: the largest r with r * r <= n (n >= 0)
\* r or r + 1, r being twice the root of n \div 4
IsqrtStep(n, r) == IF (r + 1) * (r + 1) <= n THEN r + 1 ELSE r

RECURSIVE Isqrt(_)
Isqrt(n) == IF n < 2 THEN n ELSE IsqrtStep(n, 2 * Isqrt(n \div 4))

\* fixed-point square root of a dimensionless number
Sqrt(x) == Isqrt(x * ONE)

ExpLimit == 8 * ONE
\* (2,2) Pade approximant of exp on [-1, 1]
ExpPade(x) ==
    TDiv((12 * ONE * ONE + 6 * x * ONE + x * x) * ONE,
         12 * ONE * ONE - 6 * x * ONE + x * x)
\* h * h
Square(h) == Mul(h, h)
\* pcr.exp: the (2,2) Pade approximant on [-1, 1], squared up outside
RECURSIVE Exp(_)
Exp(x) ==
    IF x > ExpLimit THEN Exp(ExpLimit)
    ELSE IF x < -ExpLimit THEN 0
    ELSE IF Abs(x) <= ONE THEN ExpPade(x)
    ELSE Square(Exp(TDiv(x, 2)))

\* pcr.ln (y > 0): the largest x with Exp(x) <= y, by bisection on [lo, hi)
RECURSIVE LnSearch(_, _, _)
LnSearch(y, lo, hi) ==
    IF hi - lo <= 1 THEN lo
    ELSE IF Exp((lo + hi) \div 2) <= y
    THEN LnSearch(y, (lo + hi) \div 2, hi)
    ELSE LnSearch(y, lo, (lo + hi) \div 2)

Ln(y) == LnSearch(y, -ExpLimit, ExpLimit + 1)

\* a ** n for a natural exponent n
RECURSIVE IPow(_, _)
IPow(a, n) == IF n = 0 THEN ONE ELSE Mul(a, IPow(a, n - 1))

\* a ** b for a > 0
Pow(a, b) == Exp(Mul(b, Ln(a)))

\* (ep - em) / (ep + em)
TanhOf(ep, em) == TDiv((ep - em) * ONE, ep + em)

\* (exp(x) - exp(-x)) / (exp(x) + exp(-x))
pcr_tanh(x) == TanhOf(Exp(x), Exp(-x))

SetMax(S) == CHOOSE m \in S : \A y \in S : y <= m
SetMin(S) == CHOOSE m \in S : \A y \in S : m <= y

(***************************************************************************)
(* interp_hand: z a height (m), hand the profile elevations (m), hand_perc *)
(* the cumulative-area percentiles (0..100) of the profile.                *)
(***************************************************************************)
\* the percentile of the profile point at elevation zAt (the largest, if many)
PercAt(zAt, hand, hand_perc) ==
    SetMax({hand_perc[i] : i \in {j \in 1..Len(hand) : hand[j] = zAt}})

\* the interpolation weight of the upper point; 0/0 is NaN, fmin(1, NaN) is 1
HandFrac(z_lim, zLower, zUpper) ==
    IF zUpper = zLower THEN ONE
    ELSE Max(0, Min(ONE, Div(z_lim - zLower, zUpper - zLower)))

\* the interpolation between the profile points at zLower and zUpper
HandBetween(z_lim, hand, hand_perc, zLower, zUpper) ==
    PercAt(zLower, hand, hand_perc)
    + Mul(PercAt(zUpper, hand, hand_perc) - PercAt(zLower, hand, hand_perc),
          HandFrac(z_lim, zLower, zUpper))

\* the percentile at the elevation z_lim within the profile
HandAt(z_lim, hand, hand_perc) ==
    HandBetween(z_lim, hand, hand_perc,
                SetMax({hand[i] : i \in {j \in 1..Len(hand) : hand[j] <= z_lim}}),
                SetMin({hand[i] : i \in {j \in 1..Len(hand) : hand[j] >= z_lim}}))

interp_hand(z, hand, hand_perc) ==
    HandAt(Min(Max(z, hand[1]), hand[Len(hand_perc)]), hand, hand_perc)

(***************************************************************************)
(* Soil water balances.  p is the parameter record, S the storage at the   *)
(* start of the timestep, w its relative wetness (S / Smax), computed      *)
(* before any store is updated.                                            *)
(***************************************************************************)

\* the positive root (-B + (B**2 - 4*A*C) ** 0.5) / (2*A) with A = Km / Smax**2,
\* B = 1, C = -x, on the quantum grid; nan when B**2 - 4*A*C < 0
GeneralCase(Smax, Km, x) ==
    LET sm == TDiv(Smax, QU)
        xq == TDiv(x, QU)
        disc == QU * sm * sm + 4 * Km * xq
    IN  IF disc < 0 THEN [nan |-> TRUE, S |-> 0]
        ELSE [nan |-> FALSE,
              S |-> QU * TDiv(sm * (Isqrt(disc) - RhGrid * sm) * RhGrid, 2 * Km)]

\* Km * ((S / Smax) ** 2)
Outflow(Km, S, Smax) == Mul(Mul(Km, Div(S, Smax)), Div(S, Smax))

RhOfReversed(p, Kr, w) ==
    Qn(Mul(pcr_tanh(Mul(Mul(p.slope_coeff, p.slope), w)),
           pcr_tanh(Mul(Mul(p.Kr_coeff, ONE - Kr), w))), ONE \div RhGrid)

\* tanh(slope_coeff * slope * w) * tanh(Kr_coeff * (Kr - 1) * w), on the grid of 1/RhGrid
RhOf(p, Kr, w) ==
    Qn(Mul(pcr_tanh(Mul(Mul(p.slope_coeff, p.slope), w)),
           pcr_tanh(Mul(Mul(p.Kr_coeff, Kr - ONE), w))), ONE \div RhGrid)

\* the depletion test of the top layer
TopDepletion(S0, I, Es) == (S0 + I) <= Es

SaturationNoCapacity(Smax, S, Ka, I, U) == (0 - S) <= (I - U)

\* the saturation test of a layer
Saturation(Smax, S, Ka, I, U) == (Smax - S + Ka) <= (I - U)

DepletedExtractionStorage(S, I) == S

\* the extraction of a layer in the depletion case
DepletedExtraction(S, I) == S + I

\* the water in excess of capacity and of the saturated outflow
Surplus(S, Smax, Ka, I, U) == S - Smax - Ka + I - U

SatInterflowNoSurplus(Rh, Ka, surplus) == Mul(Rh, Ka)

\* the interflow of the top and shallow layer in the saturation case
SatInterflow(Rh, Ka, surplus) == Mul(Rh, Ka) + surplus

ClampLower(S, Smax) == Max(0, S)

\* the storage after "enforce mass balance": max(0, min(S, Smax))
Clamp(S, Smax) == Max(0, Min(S, Smax))

ClosureNone(flux, share, massbal) == flux

\* the closure correction of a flux: flux + share * massbal
Closure(flux, share, massbal) == flux + Mul(share, massbal)

\* the cases of the top layer, Rh_0s, Km = (K0sat * Kssat) ** 0.5 and the
\* general-case root gen given
TopCases(p, S0, I, Es, Rh_0s, Km, gen) ==
    LET \* general case
        q == Qn(Outflow(Km, gen.S, p.S0max), QU)
        D0g == Mul(ONE - Rh_0s, q)
        IF0g == Mul(Rh_0s, q)
        \* depletion case
        dep == TopDepletion(S0, I, Es)
        Es1 == IF dep THEN DepletedExtraction(S0, I) ELSE Es
        S0d == IF dep THEN 0 ELSE gen.S
        D0d == IF dep THEN 0 ELSE D0g
        IF0d == IF dep THEN 0 ELSE IF0g
        \* saturation case
        sat == Saturation(p.S0max, S0, p.K0sat, I, Es1)
        D0s == IF sat THEN Mul(ONE - Rh_0s, p.K0sat) ELSE D0d
        IF0s == IF sat
                THEN SatInterflow(Rh_0s, p.K0sat, Surplus(S0, p.S0max, p.K0sat, I, Es1))
                ELSE IF0d
        S0s == IF sat THEN p.S0max ELSE S0d
        \* enforce mass balance
        S0c == Clamp(S0s, p.S0max)
        massbal == S0 + I - Es1 - D0s - IF0s - S0c
    IN  [Smax |-> p.S0max, Ka |-> p.K0sat,
         start |-> S0, inflow |-> I, demand |-> Es, U |-> Es1, Rh |-> Rh_0s,
         gen |-> [S |-> gen.S, D |-> D0g, IFlow |-> IF0g],
         dep |-> dep, sat |-> sat,
         pre |-> [S |-> S0s, D |-> D0s, IFlow |-> IF0s],
         S |-> S0c,
         D |-> Closure(D0s, ONE - Rh_0s, massbal),
         IFlow |-> Closure(IF0s, Rh_0s, massbal),
         mv |-> gen.nan /\ ~dep /\ ~sat]

TopLayer(p, S0, w0, I, Es) ==
    TopCases(p, S0, I, Es, RhOf(p, Div(p.K0sat, p.Kssat), w0),
             Isqrt(p.K0sat * p.Kssat),
             GeneralCase(p.S0max, Isqrt(p.K0sat * p.Kssat), S0 + I - Es))

\* the depletion test of the shallow layer: Ss is the general-case root
ShallowDepletion(Ssgen, D0, Us) == (Ssgen + D0) <= Us

\* the cases of the shallow layer, Rh_sd, Km = (Kssat * Kdsat) ** 0.5 and the
\* general-case root gen given
ShallowCases(p, Ss, D0, Us, Rh_sd, Km, gen) ==
    LET \* general case
        q == Qn(Outflow(Km, gen.S, p.Ssmax), QU)
        Dsg == Mul(ONE - Rh_sd, q)
        IFsg == Mul(Rh_sd, q)
        \* depletion case
        dep == ShallowDepletion(gen.S, D0, Us)
        Us1 == IF dep THEN DepletedExtraction(Ss, D0) ELSE Us
        Ssd == IF dep THEN 0 ELSE gen.S
        Dsd == IF dep THEN 0 ELSE Dsg
        IFsd == IF dep THEN 0 ELSE IFsg
        \* saturation case
        sat == Saturation(p.Ssmax, Ss, p.Kssat, D0, Us1)
        Dss == IF sat THEN Mul(ONE - Rh_sd, p.Kssat) ELSE Dsd
        IFss == IF sat
                THEN SatInterflow(Rh_sd, p.Kssat, Surplus(Ss, p.Ssmax, p.Kssat, D0, Us1))
                ELSE IFsd
        Sss == IF sat THEN p.Ssmax ELSE Ssd
        \* enforce mass balance
        Ssc == Clamp(Sss, p.Ssmax)
        massbal == Ss + D0 - Us1 - Dss - IFss - Ssc
    IN  [Smax |-> p.Ssmax, Ka |-> p.Kssat,
         start |-> Ss, inflow |-> D0, demand |-> Us, U |-> Us1, Rh |-> Rh_sd,
         gen |-> [S |-> gen.S, D |-> Dsg, IFlow |-> IFsg],
         dep |-> dep, sat |-> sat,
         pre |-> [S |-> Sss, D |-> Dss, IFlow |-> IFss],
         S |-> Ssc,
         D |-> Closure(Dss, ONE - Rh_sd, massbal),
         IFlow |-> Closure(IFss, Rh_sd, massbal),
         mv |-> gen.nan]

ShallowLayer(p, Ss, ws, D0, Us) ==
    ShallowCases(p, Ss, D0, Us, RhOf(p, Div(p.Kssat, p.Kdsat), ws),
                 Isqrt(p.Kssat * p.Kdsat),
                 GeneralCase(p.Ssmax, Isqrt(p.Kssat * p.Kdsat), Ss + D0 - Us))

\* the depletion test of the deep layer: Sd is the general-case root
DeepDepletion(Sdgen, Ds, Ud) == (Sdgen + Ds) <= Ud

DeepSatInterflowNone(p, Sd, Ds, Ud) == 0

\* the interflow of the deep layer in the saturation case
DeepSatInterflow(p, Sd, Ds, Ud) == Surplus(Sd, p.Sdmax, p.Kdsat, Ds, Ud)

\* the cases of the deep layer, the general-case root gen given
DeepCases(p, Sd, Ds, Ud, gen) ==
    LET \* general case
        Ddg == Outflow(p.Kdsat, gen.S, p.Sdmax)
        IFdg == 0 * Ddg
        \* depletion case
        dep == DeepDepletion(gen.S, Ds, Ud)
        Ud1 == IF dep THEN DepletedExtraction(Sd, Ds) ELSE Ud
        Sdd == IF dep THEN 0 ELSE gen.S
        Ddd == IF dep THEN 0 ELSE Ddg
        \* saturation case
        sat == Saturation(p.Sdmax, Sd, p.Kdsat, Ds, Ud1)
        Dds == IF sat THEN p.Kdsat ELSE Ddd
        IFds == IF sat THEN DeepSatInterflow(p, Sd, Ds, Ud1) ELSE IFdg
        Sds == IF sat THEN p.Sdmax ELSE Sdd
        \* enforce mass balance
        Sdc == Clamp(Sds, p.Sdmax)
        massbal == Sd + Ds - Ud1 - Dds - IFds - Sdc
    IN  [Smax |-> p.Sdmax, Ka |-> p.Kdsat,
         start |-> Sd, inflow |-> Ds, demand |-> Ud, U |-> Ud1, Rh |-> 0,
         gen |-> [S |-> gen.S, D |-> Ddg, IFlow |-> IFdg],
         dep |-> dep, sat |-> sat,
         pre |-> [S |-> Sds, D |-> Dds, IFlow |-> IFds],
         S |-> Sdc,
         D |-> Closure(Dds, ONE, massbal),
         IFlow |-> IFds,
         mv |-> gen.nan]

DeepLayer(p, Sd, Ds, Ud) ==
    DeepCases(p, Sd, Ds, Ud, GeneralCase(p.Sdmax, p.Kdsat, Sd + Ds - Ud))

(***************************************************************************)
(* Diagnostics, evaporation demand and root water uptake.  st is the state *)
(* at the start of the timestep, f the forcing of the timestep.            *)
(***************************************************************************)

\* 0.01 mm, the margin root water uptake leaves in a store
Margin == MM \div 100

\* LAI and the vegetation cover fraction; the floor 0.000001 is the smallest
\* positive fixed-point number
VegCover(p, Mleaf) ==
    LET LAI == Mul(p.SLA, Mleaf)
    IN  [LAI |-> LAI, fveg |-> Max(ONE - Exp(-Div(LAI, p.LAIref)), 1)]

\* Sr ** 0.75 of a water depth, as a dimensionless fixed-point number of mm
Pow075(Sr) ==
    LET x == TDiv(Sr * ONE, MM) IN Mul(Sqrt(x), Sqrt(Sqrt(x)))

\* min(0, 0.007 * Sr ** 0.75)
ChannelSurfaceOf(Sr) == Min(0, TDiv(7 * Pow075(Sr), 1000))

\* groundwater table height above the drainage base (m) from Sg (sub-units)
WaterTable(p, Sg) == TDiv(Sg * ((ONE * ONE) \div MM), 1000 * p.porosity)

\* saturated fraction fg and fraction with root access to groundwater fUg
HandFractions(p, Sg) ==
    LET zg == p.HAND[1] + WaterTable(p, Sg)
        fg == TDiv(interp_hand(zg + (-p.psi_s), p.HAND, p.perc_HAND), 100)
        fUgShallow == Mul(TDiv(interp_hand(zg + ONE, p.HAND, p.perc_HAND), 100),
                          ONE - p.fPotDeep)
        fUgDeep == Mul(TDiv(interp_hand(zg + 7 * ONE, p.HAND, p.perc_HAND), 100),
                       p.fPotDeep)
    IN  [fg |-> fg, fUg |-> fUgShallow + fUgDeep]

\* root water uptake taken from a store: max(0, min(share * Et, S - 1e-2))
Uptake(Umax, Usum, Et, S) == Max(0, Min(Mul(Div(Umax, Usum), Et), S - Margin))

\* wetness of the layers, vegetation cover, channel surface, HAND fractions
\* and the potential evaporation of the timestep
Diagnostics(p, st, f) ==
    [ws |-> Div(st.Ss, p.Ssmax), wd |-> Div(st.Sd, p.Sdmax),
     veg |-> VegCover(p, st.Mleaf),
     ChannelSurface |-> ChannelSurfaceOf(st.Sr),
     hf |-> HandFractions(p, st.Sg),
     \* UseETPdata == 1
     E0 |-> Max(f.EPOT, 0)]

\* the open water fraction and the saturated fraction
WithFractions(p, r) ==
    r @@ [fwater |-> Max(r.ChannelSurface, p.OpenWaterFrac),
          fsat |-> Min(ONE, Max(Max(r.ChannelSurface, p.OpenWaterFrac), r.hf.fg))]

\* root water uptake constraint and the canopy conductance
WithUptakeLimits(p, f, r) ==
    r @@ [Usmax |-> Max(0, Mul(p.Us0, Min(ONE, Div(r.ws, p.wslimU)))),
          Udmax |-> Max(0, Mul(p.Ud0, Min(ONE, Div(r.wd, p.wdlimU)))),
          Ugmax |-> Max(0, Mul(p.Ug0, Max(0, r.hf.fUg - r.fsat))),
          Gsmax |-> Mul(Mul(p.Gs_scalar, p.cGsmax), p.Vc),
          fD |-> ONE,
          gs |-> Mul(Mul(r.veg.fveg, ONE), Mul(Mul(p.Gs_scalar, p.cGsmax), p.Vc)),
          keg |-> Div(f.keps, ONE + f.keps)]

\* 1 / (1 + (keps / (1 + keps)) * ga / gs)
Ft(keg, ga, gs) == IF gs = 0 THEN 0 ELSE Div(ONE, ONE + Div(Mul(keg, ga), gs))

\* maximum transpiration
WithTranspiration(f, r) ==
    r @@ [Umax |-> Max(r.Usmax, Max(r.Udmax, r.Ugmax)),
          Usum |-> r.Usmax + r.Udmax + r.Ugmax,
          Etmax |-> Mul(Ft(r.keg, f.ga, r.gs), r.E0)]

\* root water uptake distribution (a division by Usum = 0 is an MV)
WithUptake(st, r) ==
    LET Et0 == Min(r.Umax, r.Etmax)
    IN  r @@ [Us |-> IF r.Usum = 0 THEN 0
                     ELSE Qn(Uptake(r.Usmax, r.Usum, Et0, st.Ss), QU),
              Ud |-> IF r.Usum = 0 THEN 0 ELSE Uptake(r.Udmax, r.Usum, Et0, st.Sd),
              Ug |-> IF r.Usum = 0 THEN 0 ELSE Uptake(r.Ugmax, r.Usum, Et0, st.Sd)]

\* transpiration, soil, groundwater and open water evaporation
EvaporationFluxes(p, st, r) ==
    LET fw_local == r.ChannelSurface
        Ept == r.E0
        Et == r.Us + r.Ud + r.Ug
        \* soil evaporation
        w0x == Max(0, Div(st.S0, p.S0max))
        fsoilE == Mul(p.FsoilEmax, Min(ONE, Div(w0x, p.w0limE)))
        Es0 == MulQ(Mul(ONE - r.fsat, fsoilE), Max(0, r.E0 - Et))
        \* groundwater evaporation
        Eg0 == MulQ(Mul(Max(0, r.fsat - r.fwater), p.FsoilEmax), Max(0, r.E0 - Et))
        \* open water evaporation
        Erl == Mul(Mul(fw_local, p.FwaterE), Ept)
        Err == Mul(Mul(r.fwater - fw_local, p.FwaterE), Ept)
    IN  [LAI |-> r.veg.LAI, fveg |-> r.veg.fveg, ChannelSurface |-> r.ChannelSurface,
         fw_local |-> fw_local, fwater |-> r.fwater, fsat |-> r.fsat, fUg |-> r.hf.fUg,
         E0 |-> r.E0, Ept |-> Ept, Umax |-> r.Umax, Usum |-> r.Usum, Gsmax |-> r.Gsmax,
         fD |-> r.fD, keg |-> r.keg, Etmax |-> r.Etmax,
         Us |-> r.Us, Ud |-> r.Ud, Ug |-> r.Ug, Et |-> Et,
         Es0 |-> Es0, Eg0 |-> Eg0, Es |-> Es0 + Eg0,
         Erl |-> Erl, Err |-> Err, Er |-> Erl + Err,
         mv |-> r.Usum = 0 \/ r.gs = 0]

Evaporation(p, st, f) ==
    EvaporationFluxes(p, st,
        WithUptake(st,
            WithTranspiration(f,
                WithUptakeLimits(p, f,
                    WithFractions(p, Diagnostics(p, st, f))))))

(***************************************************************************)
(* Rainfall interception evaporation.                                      *)
(***************************************************************************)
\* fER / fveg (a division by fER = 0 further on is an MV)
WetRatio(fER, fveg) == IF fER = 0 THEN 0 ELSE Div(fER, fveg)

\* ln(1 - fER/fveg) and the division by fER are evaluated whatever the
\* condition: outside their domain the result is an MV
InterceptionMV(fER, fveg) == fER = 0 \/ WetRatio(fER, fveg) >= ONE

\* the rainfall that wets the canopy
PwetOf(Sveg, fER, ratio) ==
    IF (fER = 0 \/ ratio >= ONE) \/ ~(Sveg > 0 /\ fER > 0 /\ ratio < ONE) THEN 0
    ELSE Max(0, Div(Mul(-Ln(ONE - ratio), Sveg), fER))

\* the interception evaporation
EiOf(fveg, fER, Pg, T24, Pwet) ==
    IF T24 > 0
    THEN IF Pg < Pwet THEN MulQ(fveg, Pg)
         ELSE MulQ(fveg, Pwet) + MulQ(fER, Pg - Pwet)
    ELSE 0

InterceptionLoss(fveg, fER, Pg, T24, Pwet) ==
    [Pwet |-> Pwet, fER |-> fER, Ei |-> EiOf(fveg, fER, Pg, T24, Pwet),
     mv |-> InterceptionMV(fER, fveg)]

InterceptionOf(fveg, Pg, T24, Sveg, fER) ==
    InterceptionLoss(fveg, fER, Pg, T24, PwetOf(Sveg, fER, WetRatio(fER, fveg)))

Interception(p, LAI, fveg, Pg, T24) ==
    InterceptionOf(fveg, Pg, T24, Mul(p.S_sls, LAI),
                   Mul(Mul(fveg, p.ER_coeff), Pow(Max(ONE \div 20, p.hveg), p.ER_exp)))

(***************************************************************************)
(* HBV snow routine.  Pn is the net precipitation, T the temperature.      *)
(***************************************************************************)
ActualSnowMeltUncapped(PotSnowMelt, DrySnow) == PotSnowMelt

\* actual snow melt
ActualSnowMelt(PotSnowMelt, DrySnow) == Min(PotSnowMelt, DrySnow)

RainFractionOne(p, T) == ONE

\* the fraction of the precipitation that falls as rain
RainFraction(p, T) ==
    Max(0, Min(Div(T - (p.snow_TT - TDiv(p.snow_TTI, 2)), p.snow_TTI), ONE))

SnowRoutine(p, FreeWater, DrySnow, Pn, T) ==
    LET RainFrac == RainFraction(p, T)
        SnowFrac == ONE - RainFrac
        SnowFall == MulQ(SnowFrac, Pn)
        RainFall == MulQ(RainFrac, Pn)
        PotSnowMelt == MulQ(Max(0, T - p.snow_TT), p.snow_Cfmax)
        PotRefreezing == MulQ(Max(p.snow_TT - T, 0), Mul(p.snow_Cfmax, p.snow_Cfr))
        Refreezing == Min(PotRefreezing, FreeWater)
        SnowMelt == ActualSnowMelt(PotSnowMelt, DrySnow)
        DrySnow1 == DrySnow + SnowFall + Refreezing - SnowMelt
        FreeWater1 == FreeWater - Refreezing
        MaxFreeWater == MulQ(p.snow_WHC, FreeWater1)
        FreeWater2 == FreeWater1 + SnowMelt + RainFall
        InSoil == Max(FreeWater2 - MaxFreeWater, 0)
        FreeWater3 == FreeWater2 - InSoil
    IN  [DrySnow |-> DrySnow1, FreeWater |-> FreeWater3, InSoil |-> InSoil,
         MaxFreeWater |-> MaxFreeWater, SnowFall |-> SnowFall, RainFall |-> RainFall,
         SnowMelt |-> SnowMelt, Refreezing |-> Refreezing,
         Rmelt |-> IF T < 0 THEN InSoil ELSE 0,
         Ps |-> IF T >= 0 THEN InSoil ELSE 0]

(***************************************************************************)
(* Surface water fluxes: saturation excess, infiltration excess,           *)
(* infiltration.                                                           *)
(***************************************************************************)
\* Pi - Pref * tanh(Pi / Pref)
HortonExcess(Pi, Pref) == Pi - Mul(pcr_tanh(Div(Pi, Pref)), Pref)

\* infiltration excess of the pervious and of the impervious part
RhofOf(p, fsat, Pi) ==
    MulQ(Max(0, ONE - fsat - p.fImp), HortonExcess(Pi, p.Pref))
    + MulQ(p.fImp, HortonExcess(Pi, p.Pref_imp))

SurfacePartition(Ps, Rmelt, Rsof, Rhof) ==
    [Rsof |-> Rsof, Rhof |-> Rhof, QR |-> Rhof + Rsof + Rmelt,
     I |-> Ps - Rhof - Rsof]

SurfaceFluxes(p, fsat, Ps, Rmelt) ==
    SurfacePartition(Ps, Rmelt, MulQ(fsat, Ps),
                     RhofOf(p, fsat, Max(0, Ps - p.InitLoss)))

(***************************************************************************)
(* Catchment water balance and vegetation adjustment.                      *)
(***************************************************************************)
DischargeNone(K, S) == 0

\* the discharge of a linear reservoir: min(S, (1 - exp(-K)) * S)
Discharge(K, S) == Min(S, Mul(ONE - Exp(-K), S))

Groundwater(p, Sg, Dd, Eg0, Ug) ==
    LET NetGf == Dd - Eg0 - Ug
        Sg1 == Sg + NetGf
        Sg_fd == Max(Sg1, 0)
        Qg == Discharge(p.K_gw, Sg_fd)
    IN  [NetGf |-> NetGf, SgMid |-> Sg1, Qg |-> Qg, Sg |-> Sg1 - Qg]

SurfaceInflowLagged(Sr, QR, Erl, Qg) == Max(0, Sr + QR - Erl)

\* the surface store before the discharge: max(0, Sr + QR - Erl + Qg)
SurfaceInflow(Sr, QR, Erl, Qg) == Max(0, Sr + QR - Erl + Qg)

SurfaceStore(p, Sr, QR, Erl, Qg) ==
    LET Sr1 == SurfaceInflow(Sr, QR, Erl, Qg)
        Qtot == Max(0, Discharge(p.K_rout, Sr1))
    IN  [SrMid |-> Sr1, Qtot |-> Qtot, Sr |-> Sr1 - Qtot]

MleafNetHalfDay(dMleaf, Tgrow, Tsenc) ==
    (IF dMleaf > 0 THEN Div(dMleaf, Tgrow) ELSE 0)
    + (IF dMleaf < 0 THEN Div(dMleaf, ONE \div 2) ELSE 0)

\* the adjustment of the leaf biomass towards its equilibrium
MleafNet(dMleaf, Tgrow, Tsenc) ==
    (IF dMleaf > 0 THEN Div(dMleaf, Tgrow) ELSE 0)
    + (IF dMleaf < 0 THEN Div(dMleaf, Tsenc) ELSE 0)

\* the equilibrium vegetation cover fraction
Fveq(p, ev, f) ==
    LET fvmax == ONE - Exp(-Div(Max(p.LAImax, 1), p.LAIref))
        demand == IF ev.Umax = 0 THEN 0 ELSE Div(ev.E0, ev.Umax)
        fveq0 == Mul(Mul(Div(ONE, Max(demand - ONE, 1)), ev.keg),
                     Div(f.ga, Mul(ev.fD, ev.Gsmax)))
    IN  Min(fveq0, fvmax)

\* the leaf biomass of the equilibrium cover fraction
MstarOf(p, fveq) == Div(Mul(-Ln(ONE - fveq), p.LAIref), p.SLA)

LeafAdjustmentOvershoot(p, Mleaf, fveq, Mstar) ==
    [fveq |-> fveq, Mstar |-> Mstar, dMleaf |-> Mstar - Mleaf,
     Mleaf |-> Mstar + MleafNet(Mstar - Mleaf, p.Tgrow, p.Tsenc)]

\* the leaf biomass after the adjustment towards the equilibrium Mstar
LeafAdjustment(p, Mleaf, fveq, Mstar) ==
    [fveq |-> fveq, Mstar |-> Mstar, dMleaf |-> Mstar - Mleaf,
     Mleaf |-> Mleaf + MleafNet(Mstar - Mleaf, p.Tgrow, p.Tsenc)]

LeafEquilibrium(p, Mleaf, fveq) == LeafAdjustment(p, Mleaf, fveq, MstarOf(p, fveq))

Vegetation(p, Mleaf, ev, f) == LeafEquilibrium(p, Mleaf, Fveq(p, ev, f))

(***************************************************************************)
(* WflowModel.dynamic with UseETPdata = 1: one timestep of one cell.       *)
(***************************************************************************)
\* the fluxes of the timestep, computed in the order of the program
WithInterception(p, f, r) ==
    r @@ [ic |-> Interception(p, r.ev.LAI, r.ev.fveg, f.PRECIP, f.TDAY)]

WithSnow(p, st, f, r) ==
    r @@ [sn |-> SnowRoutine(p, st.FreeWater, st.DrySnow, f.PRECIP - r.ic.Ei, f.TDAY)]

WithSurfaceFluxes(p, r) ==
    r @@ [sf |-> SurfaceFluxes(p, r.ev.fsat, r.sn.Ps, r.sn.Rmelt)]

WithTopLayer(p, st, r) ==
    r @@ [top |-> TopLayer(p, st.S0, Div(st.S0, p.S0max), r.sf.I, r.ev.Es)]

WithShallowLayer(p, st, r) ==
    r @@ [shallow |-> ShallowLayer(p, st.Ss, Div(st.Ss, p.Ssmax), r.top.D, r.ev.Us)]

WithDeepLayer(p, st, r) ==
    r @@ [deep |-> DeepLayer(p, st.Sd, r.shallow.D, r.ev.Ud)]

WithRunoffLessInterflow(r) ==
    r @@ [QR |-> r.sf.QR - r.top.IFlow - (r.shallow.IFlow + r.deep.IFlow)]

\* IFs = IFs + IFd; QR = QR + IF0 + IFs
WithRunoff(r) ==
    r @@ [QR |-> r.sf.QR + r.top.IFlow + (r.shallow.IFlow + r.deep.IFlow)]

WithGroundwater(p, st, r) ==
    r @@ [gw |-> Groundwater(p, st.Sg, r.deep.D, r.ev.Eg0, r.ev.Ug)]

WithSurfaceStore(p, st, r) ==
    r @@ [sr |-> SurfaceStore(p, st.Sr, r.QR, r.ev.Erl, r.gw.Qg)]

WithVegetation(p, st, f, r) ==
    r @@ [vg |-> Vegetation(p, st.Mleaf, r.ev, f)]

\* the stores and the fluxes at the end of the timestep
Outcome(p, st, f, r) ==
    [mv |-> r.ev.mv \/ r.ic.mv \/ r.top.mv \/ r.shallow.mv \/ r.deep.mv
            \/ ~(p.subcatch > 0),
     state |-> [S0 |-> r.top.S, Ss |-> r.shallow.S, Sd |-> r.deep.S,
                Mleaf |-> r.vg.Mleaf,
                FreeWater |-> r.sn.FreeWater, DrySnow |-> r.sn.DrySnow,
                Sg |-> r.gw.Sg, Sr |-> r.sr.Sr],
     flux |-> [valid |-> TRUE, start |-> st, forcing |-> f,
               ev |-> r.ev, ic |-> r.ic,
               EACT |-> r.ev.Et + r.ev.Es + r.ev.Er + r.ic.Ei,
               Pn |-> f.PRECIP - r.ic.Ei, sn |-> r.sn,
               sf |-> r.sf, top |-> r.top, shallow |-> r.shallow, deep |-> r.deep,
               QR |-> r.QR, gw |-> r.gw, sr |-> r.sr, vg |-> r.vg]]

dynamic(p, st, f) ==
    Outcome(p, st, f,
        WithVegetation(p, st, f,
        WithSurfaceStore(p, st,
        WithGroundwater(p, st,
        WithRunoff(
        WithDeepLayer(p, st,
        WithShallowLayer(p, st,
        WithTopLayer(p, st,
        WithSurfaceFluxes(p,
        WithSnow(p, st, f,
        WithInterception(p, f, [ev |-> Evaporation(p, st, f)])))))))))))

(***************************************************************************)
(* WflowModel.initial: the parameters of a cell from its static maps m.    *)
(***************************************************************************)
\* x ** -e for an integer exponent e
NegPow(x, e) == IF e >= 0 THEN Div(ONE, IPow(x, e)) ELSE IPow(x, -e)

K0satOf(m) == Qn(Mul(m.K0_scalar, m.k_s), QU)

\* K0_scalar * (((ds + d0) / d0) ** -Ksat_exp) * k_s
KssatOf(m) ==
    Qn(Mul(Mul(m.K0_scalar, NegPow(Div(m.ds + m.d0, m.d0), m.Ksat_exp)), m.k_s), RhGrid)

\* K0_scalar * (((dd + ds + d0) / d0) ** -Ksat_exp) * k_s
KdsatOf(m) ==
    Mul(Mul(m.K0_scalar, NegPow(Div(m.dd + m.ds + m.d0, m.d0), m.Ksat_exp)), m.k_s)

initial(m) ==
    [S0max |-> m.S0max, Ssmax |-> m.Ssmax, Sdmax |-> m.Sdmax,
     K0sat |-> K0satOf(m), Kssat |-> KssatOf(m), Kdsat |-> KdsatOf(m),
     w0limE |-> m.w0limE, wslimU |-> m.wslimU, wdlimU |-> m.wdlimU,
     slope |-> TDiv(m.slope, 100), slope_coeff |-> m.slope_coeff, Kr_coeff |-> m.Kr_coeff,
     SLA |-> m.SLA, LAIref |-> m.LAIref, LAImax |-> m.LAImax,
     OpenWaterFrac |-> m.OpenWaterFrac,
     HAND |-> <<m.hand[1] * 0>> \o m.hand,
     perc_HAND |-> <<m.percentile[1] * 0>> \o m.percentile,
     porosity |-> m.porosity, psi_s |-> m.psi_s, fPotDeep |-> m.fPotDeep,
     Us0 |-> m.Us0, Ud0 |-> m.Ud0, Ug0 |-> m.Ug0,
     Gs_scalar |-> m.Gs_scalar, cGsmax |-> m.cGsmax, Vc |-> m.Vc,
     FsoilEmax |-> m.FsoilEmax, FwaterE |-> m.FwaterE,
     S_sls |-> m.S_sls, ER_coeff |-> m.ER_coeff, ER_exp |-> m.ER_exp, hveg |-> m.hveg,
     snow_TT |-> m.snow_TT, snow_TTI |-> m.snow_TTI, snow_Cfmax |-> m.snow_Cfmax,
     snow_Cfr |-> m.snow_Cfr, snow_WHC |-> m.snow_WHC,
     InitLoss |-> m.InitLoss, fImp |-> m.fImp, Pref |-> m.Pref, Pref_imp |-> m.Pref_imp,
     K_gw |-> m.K_gw, K_rout |-> m.K_rout, Tgrow |-> m.Tgrow, Tsenc |-> m.Tsenc,
     subcatch |-> m.subcatch, UseETPdata |-> m.UseETPdata]

\* x / 1000 as a dimensionless fixed-point number
Milli(x) == (x * ONE) \div 1000

\* a hillslope cell: the defaults of initial() where it has them, conductivity
\* decreasing with depth, soil capacities of a thin soil
Hillslope ==
    [S0max |-> 8 * MM, Ssmax |-> 16 * MM, Sdmax |-> 16 * MM,
     K0_scalar |-> ONE, k_s |-> 4 * MM, Ksat_exp |-> 1,
     d0 |-> Milli(150), ds |-> Milli(850), dd |-> 4 * ONE,
     w0limE |-> Milli(500), wslimU |-> Milli(300), wdlimU |-> Milli(300),
     slope |-> 100 * ONE, slope_coeff |-> Milli(952), Kr_coeff |-> Milli(74),
     SLA |-> 5 * ONE, LAIref |-> Milli(2400), LAImax |-> 8 * ONE,
     OpenWaterFrac |-> Milli(20),
     hand |-> <<ONE \div 2, 2 * ONE, 8 * ONE>>,
     percentile |-> <<25 * ONE, 60 * ONE, 100 * ONE>>,
     porosity |-> Milli(400), psi_s |-> -Milli(300), fPotDeep |-> Milli(300),
     Us0 |-> 6 * MM, Ud0 |-> 6 * MM, Ug0 |-> 1 * MM,
     Gs_scalar |-> ONE, cGsmax |-> 20 * ONE, Vc |-> Milli(500),
     FsoilEmax |-> Milli(500), FwaterE |-> ONE,
     S_sls |-> MM \div 10, ER_coeff |-> Milli(300), ER_exp |-> Milli(114), hveg |-> 10 * ONE,
     snow_TT |-> 0, snow_TTI |-> ONE, snow_Cfmax |-> 3 * MM,
     snow_Cfr |-> Milli(50), snow_WHC |-> Milli(100),
     InitLoss |-> 0, fImp |-> Milli(50), Pref |-> 20 * MM, Pref_imp |-> 10 * MM,
     K_gw |-> Milli(50), K_rout |-> Milli(500), Tgrow |-> 200 * ONE, Tsenc |-> 20 * ONE,
     subcatch |-> 1, UseETPdata |-> 1]

\* a flat cell of uniform conductivity, partly paved, without groundwater uptake
Plain ==
    [Hillslope EXCEPT !.Ksat_exp = 0, !.slope = 0, !.fImp = Milli(400), !.Ug0 = 0,
                      !.hand = <<ONE \div 4, ONE \div 2, ONE>>,
                      !.percentile = <<80 * ONE, 90 * ONE, 100 * ONE>>]

\* a steep cell with a strong conductivity contrast between thin layers and
\* a vegetation that reaches its equilibrium in one day
Steep ==
    [Hillslope EXCEPT !.Ksat_exp = 2, !.ds = Milli(300), !.dd = Milli(600),
                      !.slope = 200 * ONE, !.Kr_coeff = Milli(250),
                      !.S0max = 4 * MM, !.Ssmax = 8 * MM,
                      !.Tgrow = ONE, !.Tsenc = ONE]

\* a hillslope cell whose conductivity increases with depth (Ksat_exp < 0)
Inverted ==
    [Hillslope EXCEPT !.Ksat_exp = -1, !.k_s = 2 * MM,
                      !.ds = Milli(150), !.dd = Milli(300), !.Kr_coeff = ONE]

\* a hillslope cell of a model set to derive the potential evaporation
Derived == [Hillslope EXCEPT !.UseETPdata = 0]

StaticMaps == {Hillslope, Plain, Steep, Inverted, Derived}

(***************************************************************************)
(* WflowModel.resume: the default initial conditions (reinit = 1), or the  *)
(* conditions of a state file (any state within the bounds of the stores). *)
(***************************************************************************)
Reinit(p) ==
    [Sg |-> 0, Sr |-> 0, Mleaf |-> Div(2 * ONE, p.SLA),
     S0 |-> Qn(Mul(Mul(Milli(200), p.w0limE), p.S0max), QU),
     Ss |-> Qn(Mul(Mul(Milli(200), p.wslimU), p.Ssmax), QU),
     Sd |-> Qn(Mul(Mul(Milli(200), p.wdlimU), p.Sdmax), QU),
     FreeWater |-> 0, DrySnow |-> 0]

StateFiles(p) ==
    { \* every store full
      [Sg |-> 10 * MM, Sr |-> 2 * MM, Mleaf |-> Milli(400),
       S0 |-> p.S0max, Ss |-> p.Ssmax, Sd |-> p.Sdmax,
       FreeWater |-> 0, DrySnow |-> 0],
      \* nearly dry soil
      [Sg |-> 0, Sr |-> 0, Mleaf |-> Milli(400),
       S0 |-> 0, Ss |-> 1 * MM, Sd |-> 1 * MM,
       FreeWater |-> 0, DrySnow |-> 0],
      \* a snowpack on half-full soil
      [Sg |-> 3 * MM, Sr |-> MM, Mleaf |-> Milli(200),
       S0 |-> p.S0max \div 2, Ss |-> p.Ssmax \div 2, Sd |-> p.Sdmax \div 2,
       FreeWater |-> MM, DrySnow |-> 6 * MM],
      \* every store empty
      [Sg |-> 0, Sr |-> 0, Mleaf |-> Milli(400),
       S0 |-> 0, Ss |-> 0, Sd |-> 0,
       FreeWater |-> 0, DrySnow |-> 0],
      \* groundwater and river water below a dry soil
      [Sg |-> 3 * MM, Sr |-> MM, Mleaf |-> Milli(400),
       S0 |-> 0, Ss |-> 0, Sd |-> 0,
       FreeWater |-> 0, DrySnow |-> 0] }

resume(p) == {Reinit(p)} \cup StateFiles(p)

(***************************************************************************)
(* The forcing of a timestep (UseETPdata = 1): precipitation, daily        *)
(* temperature and potential evaporation; ga (mm/s) and keps stand for the *)
(* aerodynamic conductance and the psychrometric term the timestep derives *)
(* from wind speed, air pressure, temperature and day length.              *)
(***************************************************************************)
Forcing ==
    \* dry, light-rain and heavy-rain days, freezing or mild, with or without
    \* evaporative demand
    [PRECIP : {0, 3 * MM, 25 * MM}, TDAY : {-2 * ONE, 4 * ONE},
     EPOT : {0, 6 * MM}, ga : {10 * ONE}, keps : {ONE \div 2}]
    \cup
    \* a wet day at the threshold temperature and one just below it (rain and
    \* snow mixed)
    [PRECIP : {25 * MM}, TDAY : {0, -(ONE \div 4)},
     EPOT : {6 * MM}, ga : {10 * ONE}, keps : {ONE \div 2}]

MaxSteps == 2

(***************************************************************************)
(* The attributes of the model object the potential-evaporation code       *)
(* reads.  A statement is the line it starts at, the attributes it reads   *)
(* and the attributes it assigns; reading an attribute that nothing has    *)
(* defined raises AttributeError and ends the run.                         *)
(***************************************************************************)
\* WflowModel.parameters: the forcing and the climatologies the framework
\* sets at the start of a timestep
Declared ==
    {"TMAX", "TMIN", "TDAY", "EPOT", "PRECIP", "RAD", "ALBEDO", "WINDSPEED",
     "AIRPRESS", "alb_dry", "alb_wet", "alb_snow", "cGsmax", "f_alb_Vc", "Vc"}

\* of the attributes WflowModel.initial assigns, those read below
Assigned ==
    {"UseETPdata", "alb_water", "Cg", "D50", "fvegref_G", "Gfrac_max",
     "w0ref_alb"}

Stmt(line, reads, writes) == [line |-> line, reads |-> reads, writes |-> writes]

\* the statements of a timestep up to the potential evaporation and fD
PotentialEvaporation(UseETPdata) ==
    <<Stmt(764, {}, {"fday"}), Stmt(780, {"PRECIP"}, {})>>
    \o (IF UseETPdata = 1
        THEN <<Stmt(783, {"TDAY"}, {}), Stmt(784, {"TDAY"}, {})>>
        ELSE <<Stmt(786, {"RAD"}, {}), Stmt(789, {"TMIN", "TMAX"}, {}),
               Stmt(790, {"TMIN", "TMAX"}, {}), Stmt(791, {"TMIN"}, {})>>)
    \o <<Stmt(800, {"WINDSPEED", "fday"}, {"u1"}), Stmt(806, {"AIRPRESS"}, {}),
         Stmt(863, {"u1"}, {})>>
    \o (IF UseETPdata = 1
        THEN <<Stmt(866, {"EPOT"}, {"E0"}), Stmt(867, {}, {"keps"}),
               Stmt(870, {"E0"}, {"Ept"})>>
        ELSE <<Stmt(882, {}, {"keps"}), Stmt(885, {"fday"}, {}),
               Stmt(888, {"f_alb_Vc", "Vc"}, {}), Stmt(889, {"w0ref_alb"}, {}),
               Stmt(890, {"alb_wet", "alb_dry", "alb_snow"}, {}),
               Stmt(892, {"alb_snow", "alb_water"}, {}),
               Stmt(904, {"LWdown"}, {}),
               Stmt(910, {"Gfrac_max", "fvegref_G"}, {"fGR"}),
               Stmt(911, {"RLn", "fGR"}, {"Rneff"}),
               Stmt(916, {"Rneff"}, {}),
               Stmt(919, {"keps", "Rneff", "fday"}, {"E0"}),
               Stmt(922, {"keps", "Rneff", "fday"}, {"Ept"})>>)
    \o (IF UseETPdata = 1 THEN <<>> ELSE <<Stmt(946, {"Cg", "D50"}, {})>>)

NoError == 0

\* the line of the first statement that reads an undefined attribute
RECURSIVE AttributeError(_, _)
AttributeError(stmts, defined) ==
    IF stmts = <<>> THEN NoError
    ELSE IF ~(Head(stmts).reads \subseteq defined) THEN Head(stmts).line
    ELSE AttributeError(Tail(stmts), defined \cup Head(stmts).writes)

VARIABLES par, S0, Ss, Sd, Mleaf, FreeWater, DrySnow, Sg, Sr, missing, flux, t,
          lookup, raised

vars == <<par, S0, Ss, Sd, Mleaf, FreeWater, DrySnow, Sg, Sr, missing, flux, t,
          lookup, raised>>

State == [S0 |-> S0, Ss |-> Ss, Sd |-> Sd, Mleaf |-> Mleaf,
          FreeWater |-> FreeWater, DrySnow |-> DrySnow, Sg |-> Sg, Sr |-> Sr]

Init ==
    \E m \in StaticMaps :
        \E st \in resume(initial(m)) :
            /\ par = initial(m)
            /\ S0 = st.S0 /\ Ss = st.Ss /\ Sd = st.Sd /\ Mleaf = st.Mleaf
            /\ FreeWater = st.FreeWater /\ DrySnow = st.DrySnow
            /\ Sg = st.Sg /\ Sr = st.Sr
            /\ missing = FALSE
            /\ flux = [valid |-> FALSE]
            /\ t = 0
            /\ lookup = <<>>
            /\ raised = NoError

\* one timestep; a timestep that yields a missing value leaves a missing cell,
\* and one that raises an exception ends the run with no store written
Dynamic ==
    /\ t < MaxSteps
    /\ ~missing
    /\ raised = NoError
    /\ \E f \in Forcing :
        \E e \in {AttributeError(PotentialEvaporation(par.UseETPdata),
                                 Declared \cup Assigned)} :
            IF e # NoError
            THEN /\ raised' = e
                 /\ flux' = [valid |-> FALSE, start |-> State, forcing |-> f]
                 /\ UNCHANGED <<S0, Ss, Sd, Mleaf, FreeWater, DrySnow, Sg, Sr,
                                missing>>
            ELSE \E r \in {dynamic(par, State, f)} :
                IF r.mv
                THEN /\ missing' = TRUE
                     /\ flux' = [valid |-> FALSE, start |-> State, forcing |-> f]
                     /\ UNCHANGED <<S0, Ss, Sd, Mleaf, FreeWater, DrySnow, Sg, Sr,
                                    raised>>
                ELSE /\ missing' = FALSE
                     /\ flux' = r.flux
                     /\ S0' = r.state.S0 /\ Ss' = r.state.Ss /\ Sd' = r.state.Sd
                     /\ Mleaf' = r.state.Mleaf
                     /\ FreeWater' = r.state.FreeWater /\ DrySnow' = r.state.DrySnow
                     /\ Sg' = r.state.Sg /\ Sr' = r.state.Sr
                     /\ UNCHANGED raised
    /\ t' = t + 1
    /\ UNCHANGED <<par, lookup>>

Next == Dynamic

Spec == Init /\ [][Next]_vars

(***************************************************************************)
(* The HAND lookup on its own: HAND.nc holds a profile of three elevations *)
(* and percentiles, initial() prepends the zero level, and interp_hand is  *)
(* applied to one height after another; lookup is the sequence of the      *)
(* heights queried and the percentiles returned.                           *)
(***************************************************************************)
NonDecreasing(q) == \A i \in 1..(Len(q) - 1) : q[i] <= q[i + 1]

\* the profiles of HAND.nc: elevations (m) and percentiles, non-decreasing
HandFiles ==
    { f \in [hand : [1..3 -> {0, ONE, 2 * ONE}],
             percentile : [1..3 -> {25 * ONE, 60 * ONE, 100 * ONE}]] :
        NonDecreasing(f.hand) /\ NonDecreasing(f.percentile) }

\* the heights queried: below, on, between and above the profile elevations
Heights ==
    {-ONE, 0, ONE \div 4, ONE \div 2, ONE, (3 * ONE) \div 2, 2 * ONE, 3 * ONE}

MaxLookups == 2

InitHand ==
    \E f \in HandFiles :
        /\ par = initial([Hillslope EXCEPT !.hand = f.hand,
                                           !.percentile = f.percentile])
        /\ S0 = Reinit(par).S0 /\ Ss = Reinit(par).Ss /\ Sd = Reinit(par).Sd
        /\ Mleaf = Reinit(par).Mleaf
        /\ FreeWater = Reinit(par).FreeWater /\ DrySnow = Reinit(par).DrySnow
        /\ Sg = Reinit(par).Sg /\ Sr = Reinit(par).Sr
        /\ missing = FALSE
        /\ flux = [valid |-> FALSE]
        /\ t = 0
        /\ lookup = <<>>
        /\ raised = NoError

\* one call of interp_hand
InterpHand ==
    /\ Len(lookup) < MaxLookups
    /\ \E z \in Heights :
        lookup' = Append(lookup,
                         [z |-> z, flim |-> interp_hand(z, par.HAND, par.perc_HAND)])
    /\ UNCHANGED <<par, S0, Ss, Sd, Mleaf, FreeWater, DrySnow, Sg, Sr, missing,
                   flux, t, raised>>

NextHand == InterpHand

SpecHand == InitHand /\ [][NextHand]_vars

(***************************************************************************)
(* Properties of the soil water balances.  A layer record L of the last    *)
(* timestep holds the storage at the start (L.start), the layer inflow     *)
(* (L.inflow), the extraction demanded (L.demand) and applied (L.U), the   *)
(* general-case result (L.gen), the result before "enforce mass balance"   *)
(* (L.pre), and the end storage, drainage and interflow (L.S, L.D,         *)
(* L.IFlow).  The properties are those of timesteps without missing value. *)
(***************************************************************************)
SoilLayers == {flux.top, flux.shallow, flux.deep}

\* the depletion condition of the soil scheme: S + I <= U
DepletionCondition(L) == L.start + L.inflow <= L.demand

\* the saturation condition of the soil scheme for an extraction U
SaturationCondition(L, U) == L.Smax - L.start + L.Ka <= L.inflow - U

(* C1: closure invariant.  After every timestep, in each of the three soil *)
(* layers, the end storage equals the start storage plus the inflow minus  *)
(* the applied extraction minus the closure-corrected drainage and         *)
(* interflow, whichever case was taken and also when the storage was       *)
(* clamped.                                                                *)
C1_ClosureInvariant ==
    flux.valid =>
        /\ S0 = flux.top.S /\ Ss = flux.shallow.S /\ Sd = flux.deep.S
        /\ \A L \in SoilLayers :
               L.S = L.start + L.inflow - L.U - L.D - L.IFlow

\* a timestep whose closure moved a residual of the general case into the
\* outflows of one layer, with another layer clamped and a third saturated
C1_Witness ==
    /\ flux.valid
    /\ \E L \in SoilLayers :
           /\ ~L.dep /\ ~L.sat /\ L.pre.S = L.S
           /\ L.D + L.IFlow # L.pre.D + L.pre.IFlow
    /\ \E L \in SoilLayers : ~L.dep /\ ~L.sat /\ L.pre.S # L.S
    /\ \E L \in SoilLayers : L.sat

(* C2: soil bounds.  From any state within bounds, after any sequence of   *)
(* timesteps each soil storage lies in [0, its capacity].                  *)
C2_SoilBounds ==
    /\ 0 <= S0 /\ S0 <= par.S0max
    /\ 0 <= Ss /\ Ss <= par.Ssmax
    /\ 0 <= Sd /\ Sd <= par.Sdmax

\* a second timestep in which the general-case root exceeded the capacity
C2_Witness ==
    /\ flux.valid /\ t = MaxSteps
    /\ \E L \in SoilLayers : ~L.sat /\ L.pre.S > L.Smax /\ L.S = L.Smax

(* C3: depletion trigger.  In each of the three layers the depletion case  *)
(* is taken if and only if start storage plus inflow does not exceed the   *)
(* extraction demand.                                                      *)
C3_DepletionTrigger ==
    flux.valid => \A L \in SoilLayers : L.dep <=> DepletionCondition(L)

(* C4: extraction is only capped.  In every layer the applied extraction   *)
(* is at most the demanded extraction and at most start storage plus       *)
(* inflow.                                                                 *)
C4_ExtractionCapped ==
    flux.valid =>
        \A L \in SoilLayers : L.U <= L.demand /\ L.U <= L.start + L.inflow

(* C5: depletion outcome.  Whenever the depletion case is taken (and       *)
(* whenever S + I <= U), the applied extraction is start storage plus      *)
(* inflow, the end storage is 0 and the closure-corrected drainage and     *)
(* interflow are 0; with S = 0, I = 0 and U > 0 the applied extraction is  *)
(* 0.                                                                      *)
C5_DepletionOutcome ==
    flux.valid =>
        \A L \in SoilLayers :
            /\ (L.dep \/ DepletionCondition(L)) =>
                   /\ L.U = L.start + L.inflow
                   /\ L.S = 0 /\ L.D = 0 /\ L.IFlow = 0
            /\ (L.start = 0 /\ L.inflow = 0 /\ L.demand > 0) => L.U = 0

\* depletion of an empty layer under a positive demand, and depletion of a
\* layer that had water
C5_Witness ==
    /\ flux.valid
    /\ \E L \in SoilLayers :
           L.dep /\ L.start = 0 /\ L.inflow = 0 /\ L.demand > 0
    /\ \E L \in SoilLayers : L.dep /\ L.start + L.inflow > 0

(* C6: saturation outcome.  Whenever Smax - S + Ka <= I - U, the end       *)
(* storage is Smax, the drainage is (1 - Rh) * Ka (Kdsat in the deep       *)
(* layer) and drainage plus interflow is Ka plus the surplus               *)
(* S + I - U - Smax - Ka; with S = Smax and U = 0 the total outflow is I.  *)
C6_SaturationOutcome ==
    flux.valid =>
        \A L \in SoilLayers :
            /\ (SaturationCondition(L, L.U) \/ SaturationCondition(L, L.demand)) =>
                   /\ L.U = L.demand
                   /\ L.S = L.Smax
                   /\ L.D = Mul(ONE - L.Rh, L.Ka)
                   /\ L.D + L.IFlow = L.Ka + (L.start + L.inflow - L.U - L.Smax - L.Ka)
            /\ (SaturationCondition(L, L.U) /\ L.start = L.Smax /\ L.U = 0) =>
                   L.D + L.IFlow = L.inflow

\* the three layers saturated in one timestep, the top layer full at the
\* start and without extraction, with a surplus and a lateral share
C6_Witness ==
    /\ flux.valid
    /\ \A L \in SoilLayers : SaturationCondition(L, L.U)
    /\ flux.top.start = flux.top.Smax /\ flux.top.U = 0
    /\ flux.top.inflow > flux.top.Ka
    /\ flux.top.Rh > 0 /\ flux.top.Rh < ONE

(* C7: the interflow of the deep layer is zero in every timestep and in    *)
(* every case.                                                             *)
C7_DeepInterflowZero == flux.valid => flux.deep.IFlow = 0

(* C7, amended: the interflow of the deep layer is zero in the depletion   *)
(* and general cases; in the saturation case it is the surplus             *)
(* Sd + Ds - Ud - Sdmax - Kdsat >= 0, which is added to the interflow that *)
(* is summed into the combined runoff QR.                                  *)
C7_DeepInterflow ==
    flux.valid =>
        /\ flux.deep.IFlow =
               IF SaturationCondition(flux.deep, flux.deep.U)
               THEN flux.deep.start + flux.deep.inflow - flux.deep.U
                    - flux.deep.Smax - flux.deep.Ka
               ELSE 0
        /\ flux.deep.IFlow >= 0
        /\ flux.QR = flux.sf.QR + flux.top.IFlow + flux.shallow.IFlow + flux.deep.IFlow

\* a saturated deep layer with a surplus
C7_Witness ==
    flux.valid /\ SaturationCondition(flux.deep, flux.deep.U) /\ flux.deep.IFlow > 0

(* C8: branch selection.  The saturation condition is evaluated with the   *)
(* extraction adjusted by the depletion branch, and the general-case       *)
(* result (storage, drainage, interflow) is the result before closure when *)
(* neither the depletion condition nor the saturation condition holds.     *)
C8_BranchSelection ==
    flux.valid =>
        \A L \in SoilLayers :
            /\ L.sat <=> SaturationCondition(L, L.U)
            /\ (~DepletionCondition(L) /\ ~SaturationCondition(L, L.U)) =>
                   L.pre = L.gen

(* C9: the partition coefficients Rh_0s and Rh_sd lie in [0, 1] in every   *)
(* timestep, for every parameter set with non-negative slope and           *)
(* coefficients and positive conductivities.                               *)
C9_RhUnit ==
    flux.valid =>
        /\ 0 <= flux.top.Rh /\ flux.top.Rh <= ONE
        /\ 0 <= flux.shallow.Rh /\ flux.shallow.Rh <= ONE

(* C9, amended: Rh_0s and Rh_sd lie in [0, 1] in every timestep for every  *)
(* parameter set with non-negative slope and coefficients and positive     *)
(* conductivities that do not increase with depth (K0sat >= Kssat >=       *)
(* Kdsat, as initial() derives them from a non-negative Ksat_exp).         *)
C9_RhUnitDecreasingK ==
    (flux.valid /\ par.K0sat >= par.Kssat /\ par.Kssat >= par.Kdsat) =>
        /\ 0 <= flux.top.Rh /\ flux.top.Rh <= ONE
        /\ 0 <= flux.shallow.Rh /\ flux.shallow.Rh <= ONE

\* a lateral share strictly between 0 and 1 in both layers
C9_Witness ==
    /\ flux.valid /\ par.K0sat > par.Kssat /\ par.Kssat > par.Kdsat
    /\ 0 < flux.top.Rh /\ flux.top.Rh < ONE
    /\ 0 < flux.shallow.Rh /\ flux.shallow.Rh < ONE

(* C10: snow stores.  From DrySnow >= 0 and FreeWater >= 0, after any      *)
(* sequence of timesteps DrySnow >= 0 and FreeWater >= 0, and the net      *)
(* precipitation passed to the snow routine is never negative.             *)
C10_SnowNonNegative ==
    /\ DrySnow >= 0 /\ FreeWater >= 0
    /\ flux.valid => flux.Pn >= 0

\* a timestep with interception loss and a snowpack that melts away
C10_Witness ==
    /\ flux.valid
    /\ flux.ic.Ei > 0 /\ flux.Pn > 0
    /\ flux.start.DrySnow > 0 /\ flux.sn.SnowMelt = flux.start.DrySnow
    /\ DrySnow = 0 /\ FreeWater > 0

(***************************************************************************)
(* Properties of the snow routine, the evaporation fluxes, the groundwater *)
(* and surface stores and the vegetation.                                  *)
(***************************************************************************)

\* a timestep below zero on a cell without snowpack
ColdStartWithoutSnow ==
    /\ flux.valid /\ flux.forcing.TDAY < 0
    /\ flux.start.DrySnow = 0 /\ flux.start.FreeWater = 0

\* all the precipitation P of the timestep is kept as dry snow
AllKeptAsSnow ==
    /\ DrySnow = flux.forcing.PRECIP /\ FreeWater = 0
    /\ flux.sn.Ps = 0 /\ flux.sn.Rmelt = 0

(* C11: snow conservation.  A timestep with temperature below zero and     *)
(* precipitation P on a cell with DrySnow = FreeWater = 0 ends with        *)
(* DrySnow = P, FreeWater = 0, Ps = 0 and Rmelt = 0.                       *)
C11_SnowConservation == ColdStartWithoutSnow => AllKeptAsSnow

(* C11, amended: the same, for a temperature below zero that is at or      *)
(* below the lower end of the rain/snow transition band,                   *)
(* T24 <= snow_TT - snow_TTI / 2.                                          *)
C11_SnowConservationBelowBand ==
    (/\ ColdStartWithoutSnow
     /\ flux.forcing.TDAY <= par.snow_TT - TDiv(par.snow_TTI, 2)) => AllKeptAsSnow

\* precipitation on a snow-free cell below the transition band
C11_Witness ==
    /\ ColdStartWithoutSnow
    /\ flux.forcing.TDAY <= par.snow_TT - TDiv(par.snow_TTI, 2)
    /\ flux.forcing.PRECIP > 0 /\ DrySnow = flux.forcing.PRECIP

(* C12: holding capacity of the snowpack.  At the end of the snow routine  *)
(* FreeWater is at most snow_WHC times the updated DrySnow, and the water  *)
(* released to the soil input is the FreeWater above that capacity.        *)
C12_HoldingCapacity ==
    flux.valid =>
        /\ FreeWater <= MulQ(par.snow_WHC, DrySnow)
        /\ flux.sn.InSoil =
               Max(0, FreeWater + flux.sn.InSoil - MulQ(par.snow_WHC, DrySnow))

(* C13: evaporation never exceeds the available water.  In every timestep  *)
(* the extraction applied to a soil layer (Es to S0, Us to Ss, Ud to Sd)   *)
(* is at most the start storage plus the inflow of the layer, and Ug plus  *)
(* Eg0 is at most the start storage of the groundwater store plus the deep *)
(* drainage.                                                               *)
C13_EvaporationAvailable ==
    flux.valid =>
        /\ \A L \in SoilLayers : L.U <= L.start + L.inflow
        /\ flux.ev.Ug + flux.ev.Eg0 <= flux.start.Sg + flux.deep.D

(* C14: groundwater negativity is only transient.  From Sg >= 0, after any *)
(* sequence of timesteps the groundwater storage at the end of the         *)
(* timestep, after the discharge Qg, is not negative.                      *)
C14_GroundwaterNonNegative == Sg >= 0

\* a timestep without recharge of, and extraction from, the groundwater store
NoGroundwaterInflow ==
    /\ flux.valid /\ par.K_gw > 0 /\ flux.start.Sg >= 0
    /\ flux.deep.D = 0 /\ flux.ev.Eg0 = 0 /\ flux.ev.Ug = 0

\* a timestep without inflow to, and evaporation from, the surface store
NoSurfaceInflow ==
    /\ flux.valid /\ par.K_rout > 0 /\ flux.start.Sr >= 0
    /\ flux.QR = 0 /\ flux.gw.Qg = 0 /\ flux.ev.Erl = 0

C16_SurfaceStore ==
    /\ Sr >= 0
    /\ flux.valid =>
           /\ flux.sr.SrMid =
                  Max(0, flux.start.Sr + flux.QR - flux.ev.Erl + flux.gw.Qg)
           /\ 0 <= flux.sr.Qtot /\ flux.sr.Qtot <= flux.sr.SrMid
           /\ Sr = flux.sr.SrMid - flux.sr.Qtot

\* an empty surface store without runoff that discharges from the
\* groundwater discharge of the same timestep
C16_Witness ==
    /\ flux.valid /\ flux.start.Sr = 0 /\ flux.QR = 0
    /\ flux.gw.Qg > 0 /\ flux.sr.Qtot > 0 /\ Sr > 0

\* the interflow terms after closure are not negative
InterflowNonNegative ==
    \A L \in SoilLayers : L.IFlow >= 0

\* conductivities that do not increase with depth
ConductivityDecreasing == par.K0sat >= par.Kssat /\ par.Kssat >= par.Kdsat

(* C17: the combined runoff is never negative.  In every timestep QR >= 0, *)
(* the infiltration I = Ps - Rhof - Rsof is not negative and each          *)
(* closure-corrected interflow term is not negative.                       *)
C17_RunoffNonNegative ==
    flux.valid => flux.QR >= 0 /\ flux.sf.I >= 0 /\ InterflowNonNegative

(* C17, amended: for conductivities that do not increase with depth, in    *)
(* every timestep QR >= 0 and each closure-corrected interflow term is not *)
(* negative; the infiltration I is not negative when the saturated and     *)
(* impervious fractions do not overlap (fsat + fImp <= 1).                 *)
C17_RunoffNonNegativeDecreasingK ==
    (flux.valid /\ ConductivityDecreasing) =>
        /\ flux.QR >= 0
        /\ InterflowNonNegative
        /\ flux.ev.fsat + par.fImp <= ONE => flux.sf.I >= 0

\* surface runoff and interflow of the top and shallow layers add up to QR
C17_Witness ==
    /\ flux.valid /\ ConductivityDecreasing
    /\ flux.sf.QR > 0 /\ flux.sf.I > 0
    /\ flux.top.IFlow > 0 /\ flux.shallow.IFlow > 0
    /\ flux.QR > flux.sf.QR

(* C18: total actual evapotranspiration is bounded by the potential        *)
(* evaporation.  In every timestep EACT = Et + Es + Er + Ei is at most E0. *)
C18_EvaporationBounded ==
    flux.valid =>
        /\ flux.EACT = flux.ev.Et + flux.ev.Es + flux.ev.Er + flux.ic.Ei
        /\ flux.EACT <= flux.ev.E0

\* a timestep without precipitation and potential evaporation that started
\* with every moisture store at zero
ZeroForcingOnEmptyStores ==
    /\ t > 0
    /\ flux.forcing.PRECIP = 0 /\ flux.forcing.EPOT = 0
    /\ flux.start.S0 = 0 /\ flux.start.Ss = 0 /\ flux.start.Sd = 0
    /\ flux.start.Sg = 0 /\ flux.start.Sr = 0
    /\ flux.start.FreeWater = 0 /\ flux.start.DrySnow = 0

\* every flux of the timestep is zero
AllFluxesZero ==
    /\ flux.EACT = 0 /\ flux.ev.Et = 0 /\ flux.ev.Es = 0 /\ flux.ev.Er = 0
    /\ flux.ic.Ei = 0 /\ flux.Pn = 0 /\ flux.sn.InSoil = 0
    /\ flux.sf.I = 0 /\ flux.QR = 0
    /\ \A L \in SoilLayers : L.U = 0 /\ L.D = 0 /\ L.IFlow = 0
    /\ flux.gw.NetGf = 0 /\ flux.gw.Qg = 0 /\ flux.sr.Qtot = 0

(* C19: idempotence under zero forcing.  A timestep with zero              *)
(* precipitation and zero potential evaporation that starts with every     *)
(* moisture store at zero completes with every flux equal to zero and      *)
(* every state variable, Mleaf included, equal to its value before.        *)
C19_ZeroForcingIdempotent ==
    ZeroForcingOnEmptyStores =>
        /\ ~missing /\ flux.valid
        /\ AllFluxesZero
        /\ State = flux.start

(* C20: leaf biomass stays positive.  Starting from Mleaf > 0, after any   *)
(* sequence of timesteps with any forcing and with time constants          *)
(* Tgrow >= 1 and Tsenc >= 1, Mleaf > 0, and hence LAI >= 0 and the        *)
(* vegetation cover fraction fveg lies in [0, 1].                          *)
C20_LeafBiomassPositive ==
    (par.Tgrow >= ONE /\ par.Tsenc >= ONE /\ ~missing) =>
        /\ Mleaf > 0
        /\ flux.valid => flux.vg.Mleaf = Mleaf /\ flux.vg.Mstar >= 0
        /\ VegCover(par, Mleaf).LAI >= 0
        /\ VegCover(par, Mleaf).fveg >= 0
        /\ VegCover(par, Mleaf).fveg <= ONE

\* a second timestep in which the leaf biomass of a cell with a senescence
\* time of one day drops to a smaller equilibrium and stays positive
C20_Witness ==
    /\ t = 2 /\ flux.valid
    /\ par.Tgrow >= ONE /\ par.Tsenc = ONE
    /\ flux.vg.dMleaf < 0
    /\ 0 < Mleaf /\ Mleaf < flux.start.Mleaf

(***************************************************************************)
(* Properties of the HAND lookup, of the specification SpecHand.           *)
(***************************************************************************)
\* the percentiles of the profile points at the elevation e
PercentilesAt(e) ==
    {par.perc_HAND[i] : i \in {j \in 1..Len(par.HAND) : par.HAND[j] = e}}

\* between two profile points of different elevation the percentile v at the
\* height z lies on the straight line through them
Interpolates(z, v) ==
    \A i \in 1..(Len(par.HAND) - 1) :
        (par.HAND[i] < z /\ z < par.HAND[i + 1]) =>
            (v - par.perc_HAND[i]) * (par.HAND[i + 1] - par.HAND[i])
                = (par.perc_HAND[i + 1] - par.perc_HAND[i]) * (z - par.HAND[i])

\* the fraction percentile / 100 lies in [0, 1], and the percentiles returned
\* do not decrease with the height queried
FractionMonotone ==
    /\ \A k \in DOMAIN lookup :
        TDiv(lookup[k].flim, 100) >= 0 /\ TDiv(lookup[k].flim, 100) <= ONE
    /\ \A j, k \in DOMAIN lookup :
        lookup[j].z <= lookup[k].z => lookup[j].flim <= lookup[k].flim

\* at or below the lowest and at or above the highest elevation, and at a
\* profile elevation, the percentile v is that of a profile point there
OnProfile(z, v) ==
    /\ z <= par.HAND[1] => v \in PercentilesAt(par.HAND[1])
    /\ z >= par.HAND[Len(par.HAND)] => v = par.perc_HAND[Len(par.HAND)]
    /\ \A i \in 1..Len(par.HAND) : z = par.HAND[i] => v \in PercentilesAt(z)

(* C21: HAND lookup.  For every height z and every profile of              *)
(* non-decreasing elevations and percentiles interp_hand returns the       *)
(* percentile of the lowest point for z at or below the lowest elevation,  *)
(* that of the highest point for z at or above the highest elevation, the  *)
(* profile percentile when z equals a profile elevation (that of one of    *)
(* the points there, if several share the elevation), and the linear       *)
(* interpolation between the two bracketing points otherwise; the          *)
(* result / 100 lies in [0, 1] and is non-decreasing in z.                 *)
C21_HandLookup ==
    /\ \A k \in DOMAIN lookup :
        /\ OnProfile(lookup[k].z, lookup[k].flim)
        /\ Interpolates(lookup[k].z, lookup[k].flim)
    /\ FractionMonotone

(***************************************************************************)
(* Properties of the whole timestep, of the specification Spec.            *)
(***************************************************************************)
(* C22: derived potential-evaporation mode is executable.  With            *)
(* UseETPdata = 0 a timestep derives E0 and Ept using only quantities that *)
(* are declared forcing or parameters or were assigned earlier, and goes   *)
(* on to commit a new state: no quantity is read before it is defined.     *)
C22_DerivedModeExecutable ==
    (par.UseETPdata = 0 /\ t > 0) => (raised = NoError /\ (~missing => flux.valid))

(* C23: leaf biomass relaxation without overshoot.  With the equilibrium   *)
(* biomass M* = -ln(1 - fveq) * LAIref / SLA the new Mleaf is              *)
(* Mleaf + (M* - Mleaf) / Tgrow when M* > Mleaf,                           *)
(* Mleaf + (M* - Mleaf) / Tsenc when M* < Mleaf and Mleaf when they are    *)
(* equal; for time constants >= 1 it lies between the old Mleaf and M*.    *)
C23_LeafRelaxation ==
    flux.valid =>
        /\ flux.vg.Mstar
               = Div(Mul(-Ln(ONE - flux.vg.fveq), par.LAIref), par.SLA)
        /\ flux.vg.Mstar > flux.start.Mleaf =>
               Mleaf = flux.start.Mleaf
                           + Div(flux.vg.Mstar - flux.start.Mleaf, par.Tgrow)
        /\ flux.vg.Mstar < flux.start.Mleaf =>
               Mleaf = flux.start.Mleaf
                           + Div(flux.vg.Mstar - flux.start.Mleaf, par.Tsenc)
        /\ flux.vg.Mstar = flux.start.Mleaf => Mleaf = flux.start.Mleaf
        /\ (par.Tgrow >= ONE /\ par.Tsenc >= ONE) =>
               /\ Min(flux.start.Mleaf, flux.vg.Mstar) <= Mleaf
               /\ Mleaf <= Max(flux.start.Mleaf, flux.vg.Mstar)

\* a timestep of slow growth: the leaf biomass rises and stays below the
\* equilibrium
C23_Witness ==
    /\ flux.valid
    /\ par.Tgrow > ONE
    /\ flux.start.Mleaf < Mleaf /\ Mleaf < flux.vg.Mstar

(* C24: depletion and saturation are mutually exclusive.  For any layer    *)
(* with Smax + Ka > 0 the depletion condition and the saturation condition *)
(* (evaluated on the depletion-adjusted extraction) are never both true in *)
(* a timestep, so the values the depletion branch writes are not           *)
(* overwritten by the saturation branch.                                   *)
C24_DepletionExcludesSaturation ==
    flux.valid =>
        \A L \in SoilLayers :
            L.Smax + L.Ka > 0 =>
                /\ ~(L.dep /\ L.sat)
                /\ L.dep => /\ L.pre.S = 0 /\ L.pre.D = 0 /\ L.pre.IFlow = 0
                            /\ L.U = L.start + L.inflow

\* a timestep that depletes a layer which held water and received inflow:
\* its extraction is cut below the demand and its saturation test fails
C24_Witness ==
    /\ flux.valid
    /\ \E L \in SoilLayers :
           /\ L.Smax + L.Ka > 0 /\ L.start > 0 /\ L.inflow > 0
           /\ L.dep /\ L.U < L.demand /\ ~L.sat

\* the water stored in the cell
Stored(st) == st.S0 + st.Ss + st.Sd + st.Sg + st.Sr + st.DrySnow + st.FreeWater

\* the evaporation taken out of the stores and the rainfall in the timestep:
\* extraction of the three layers, Eg0 and Ug from the groundwater, Erl from
\* the surface store, Ei from the rainfall
Removed ==
    flux.top.U + flux.shallow.U + flux.deep.U
    + (flux.deep.D - flux.gw.NetGf)
    + (flux.start.Sr + flux.QR + flux.gw.Qg - flux.sr.SrMid)
    + (flux.forcing.PRECIP - flux.Pn)

(* C25: whole-cell water balance.  In every timestep the change of the     *)
(* total stored water S0 + Ss + Sd + Sg + Sr + DrySnow + FreeWater equals  *)
(* the precipitation minus the reported EACT minus the discharge Qtot;     *)
(* every evaporative flux of the report is removed from exactly one store, *)
(* once, in the reported amount.                                           *)
C25_WaterBalance ==
    flux.valid =>
        /\ Stored(State) - Stored(flux.start)
               = flux.forcing.PRECIP - flux.EACT - flux.sr.Qtot
        /\ Removed = flux.EACT

(* C26: local channel evaporation responds to the surface store.  In a     *)
(* timestep with Sr > 0 and positive open-water potential evaporation Ept  *)
(* the local channel surface fraction (ChannelSurface, fw_local) is        *)
(* positive and the local open-water evaporation Erl is positive, so that  *)
(* Sr after inflow is reduced by Erl before Qtot is drawn.                 *)
C26_ChannelEvaporation ==
    (flux.valid /\ flux.start.Sr > 0 /\ flux.ev.Ept > 0) =>
        /\ flux.ev.ChannelSurface > 0 /\ flux.ev.fw_local > 0
        /\ flux.ev.Erl > 0
        /\ flux.sr.SrMid < flux.start.Sr + flux.QR + flux.gw.Qg

=============================================================================
